---- MODULE Spec2Model ----
\* Verification model of cardroom's per-table control loop
\* (src/cardroom/controller.py, Controller._run and CashGame.handle).
\*
\* Time.  The code only ever compares a stored timestamp with the clock and
\* subtracts the clock from it, so every stored timestamp is kept as its
\* offset from the current clock reading, in ticks: offset d means
\* "timestamp = now + d".  A clock tick lowers every stored offset by one.
\* An optional value (Python's None or a value) is the empty set or a
\* singleton.
EXTENDS Integers, Sequences, FiniteSets, TLC

\* ---------------------------------------------------------------- bounds
Users == {"a", "b"}            \* participants that may submit actions
Spectator == "c"               \* a participant who only watches
Everyone == Users \cup {Spectator}
NumSeats == 3                  \* seats of the table
TicksPerSecond == 2            \* clock resolution of the model
MaxPast == 1                   \* offsets below -MaxPast are kept as -MaxPast
MaxWait == 4                   \* blocking timeouts above MaxWait ticks are "long"
MaxActions == 3                \* actions submitted in one run
MaxQueue == 2                  \* actions waiting in the queue at once

\* configuration of the session, in seconds
state_construction_timeout == 1
state_destruction_timeout == 1
idle_timeout == 1
standing_pat_timeout == 1
betting_timeout == 1
hole_cards_showing_or_mucking_timeout == 1

SecondsPerDay == 86400         \* datetime.timedelta: 0 <= seconds < 86400

\* ---------------------------------------------------------------- helpers
Absent == {}
Min(S) == CHOOSE x \in S : \A y \in S : x <= y
Max2(x, y) == IF x >= y THEN x ELSE y
Sat(d) == Max2(d, 0 - MaxPast)
Shift(ts) == {Sat(d - 1) : d \in ts}
Range(f) == {f[x] : x \in DOMAIN f}

\* pokerkit.min_or_none: the least of the values that are not None
min_or_none(values) ==
    LET present == UNION values
    IN  IF present = {} THEN Absent ELSE {Min(present)}

\* now >= timestamp, false for None
is_past_timestamp(timestamp) == \E d \in timestamp : 0 >= d

\* now + timedelta(seconds=timeout), None for None
get_future_timestamp(timeout) == {secs * TicksPerSecond : secs \in timeout}

\* timedelta.seconds of a difference of d ticks: the seconds field of the
\* normalised (days, seconds, microseconds), days carrying the sign
TimedeltaSeconds(d) == (d % (SecondsPerDay * TicksPerSecond)) \div TicksPerSecond

\* ---------------------------------------------------------------- table
\* cardroom.table.Table and the pokerkit state it holds.  A hand is the
\* sequence of decisions the rules engine still asks for; every engine
\* mutator and every accepted action answers the first of them.
NoUser == "-"
NoState == <<"none">>
Seats == 0 .. (NumSeats - 1)
Scripts == { <<"pat", "bet_f", "show">>, <<"bet_b", "bet_c">>, <<"bet_x">> }

RECURSIVE Suffixes(_)
Suffixes(q) == IF q = <<>> THEN {<<>>} ELSE {q} \cup Suffixes(Tail(q))

EmptyTable ==
    [seats  |-> [i \in Seats |-> NoUser],
     active |-> [u \in Everyone |-> FALSE],
     player |-> [u \in Everyone |-> FALSE],
     stack  |-> [u \in Everyone |-> 0],
     state  |-> NoState]

\* a table whose seats are taken by participants who bought in
FullTable ==
    [seats  |-> [i \in Seats |-> IF i = 0 THEN "a" ELSE IF i = 1 THEN "b" ELSE NoUser],
     active |-> [u \in Everyone |-> u \in Users],
     player |-> [u \in Everyone |-> FALSE],
     stack  |-> [u \in Everyone |-> IF u \in Users THEN 3 ELSE 0],
     state  |-> NoState]

\* the same table with a third participant seated who joined and bought
\* nothing
WatchedTable ==
    [seats  |-> [i \in Seats |-> IF i = 0 THEN "a" ELSE IF i = 1 THEN "b"
                                 ELSE IF i = 2 THEN Spectator ELSE NoUser],
     active |-> [u \in Everyone |-> TRUE],
     player |-> [u \in Everyone |-> FALSE],
     stack  |-> [u \in Everyone |-> IF u = Spectator THEN 0 ELSE 3],
     state  |-> NoState]

\* the tables a loop is started on: the owner hands _run a Table it built
InitTables == {EmptyTable, FullTable}

Seated(t, u) == \E i \in Seats : t.seats[i] = u

RECURSIVE UsersFrom(_, _)
UsersFrom(t, i) ==
    IF i >= NumSeats THEN <<>>
    ELSE (IF t.seats[i] = NoUser THEN <<>> ELSE <<t.seats[i]>>) \o UsersFrom(t, i + 1)
TableUsers(t) == UsersFrom(t, 0)
UserSet(t) == {t.seats[i] : i \in Seats} \ {NoUser}

Ready(t) == {u \in UserSet(t) : t.active[u] /\ t.stack[u] > 0}

can_join(t, u, i) == i \in Seats /\ ~Seated(t, u) /\ t.seats[i] = NoUser
join(t, u, i) ==
    [t EXCEPT !.seats[i] = u, !.active[u] = TRUE, !.player[u] = FALSE, !.stack[u] = 0]

can_leave(t, u) == Seated(t, u) /\ ~t.player[u]
leave(t, u) ==
    [t EXCEPT !.seats = [i \in Seats |-> IF t.seats[i] = u THEN NoUser ELSE t.seats[i]],
              !.active[u] = FALSE, !.player[u] = FALSE, !.stack[u] = 0]

can_sit_out(t, u) == Seated(t, u) /\ t.active[u]
sit_out(t, u) == [t EXCEPT !.active[u] = FALSE]

can_be_back(t, u) == Seated(t, u) /\ ~t.active[u]
be_back(t, u) == [t EXCEPT !.active[u] = TRUE]

can_buy_rebuy_top_off_or_rat_hole(t, u, amount) ==
    Seated(t, u) /\ ~t.player[u] /\ amount > 0
buy_rebuy_top_off_or_rat_hole(t, u, amount) == [t EXCEPT !.stack[u] = amount]

can_construct_state(t) == t.state = NoState /\ Cardinality(Ready(t)) >= 2
construct_state(t, script) ==
    [t EXCEPT !.state = script,
              !.player = [u \in Everyone |-> u \in Ready(t)]]

can_destroy_state(t) == t.state = <<>>
destroy_state(t) ==
    [t EXCEPT !.state = NoState, !.player = [u \in Everyone |-> FALSE]]

HasState(t) == t.state # NoState
Pending(t) == HasState(t) /\ t.state # <<>>
Phase(t) == IF Pending(t) THEN Head(t.state) ELSE "idle"
Advance(t) == [t EXCEPT !.state = Tail(t.state)]

can_stand_pat_or_discard(t) == Phase(t) = "pat"
actor_due(t) == Phase(t) \in {"bet_f", "bet_c", "bet_b", "bet_x"}
can_fold(t) == Phase(t) = "bet_f"
can_check_or_call(t) == Phase(t) \in {"bet_f", "bet_c"}
can_post_bring_in(t) == Phase(t) = "bet_b"
can_show_or_muck_hole_cards(t) == Phase(t) = "show"

\* pokerkit.parse_action: the text is applied when the engine is waiting for
\* a decision, and is a ValueError otherwise
can_parse_action(t) == Pending(t)

\* the configured value parser: the chip amount of a numeral, ValueError (no
\* value) for any other token
parse_value(token) == IF token = "5" THEN {5} ELSE {}


\* ---------------------------------------------------------------- state
VARIABLES
    table,                                    \* the Table the loop owns
    queue,                                    \* CashGame.queue
    state_construction_timestamp,
    state_destruction_timestamp,
    idle_timestamps,                          \* dict: user -> optional timestamp
    standing_pat_timestamp,
    betting_timestamp,
    hole_cards_showing_or_mucking_timestamp,
    data,                                     \* the batch of snapshots
    auto_timestamp,                           \* Controller.auto_timestamp
    time_banks,                               \* Controller.time_banks, dict: user -> seconds
    pc,                                       \* position of the loop
    timeout,                                  \* remaining blocking time of queue.get
    nextId,                                   \* history: number of the next submitted action
    consumed,                                 \* history: ids taken from the queue, in order
    delivered,                                \* history: ids of action snapshots given to the callback
    disp,                                     \* history: what the dispatcher did this iteration
    since,                                    \* history: for how long each predicate has held
    fired                                     \* history: default transitions of the last sweep pass

vars == <<table, queue, state_construction_timestamp, state_destruction_timestamp,
          idle_timestamps, standing_pat_timestamp, betting_timestamp,
          hole_cards_showing_or_mucking_timestamp, data, auto_timestamp, time_banks,
          pc, timeout, nextId, consumed, delivered, disp, since, fired>>

\* ---------------------------------------------------------------- timer categories
Cats == {"construct", "destroy", "pat", "bet", "show"} \cup Everyone

\* configured timeout of a category, in seconds (a user names its idle timer)
Timeout(c) ==
    CASE c = "construct" -> state_construction_timeout
      [] c = "destroy"   -> state_destruction_timeout
      [] c = "pat"       -> standing_pat_timeout
      [] c = "bet"       -> betting_timeout
      [] c = "show"      -> hole_cards_showing_or_mucking_timeout
      [] OTHER           -> idle_timeout

AgeCap == TicksPerSecond * Max2(Max2(Max2(state_construction_timeout, state_destruction_timeout),
                                     Max2(idle_timeout, standing_pat_timeout)),
                                Max2(betting_timeout, hole_cards_showing_or_mucking_timeout))

\* the condition the sweep tests before it looks at a category's deadline
Eligible(t, c) ==
    CASE c = "construct" -> can_construct_state(t)
      [] c = "destroy"   -> can_destroy_state(t)
      [] c = "pat"       -> can_stand_pat_or_discard(t)
      [] c = "bet"       -> actor_due(t)
      [] c = "show"      -> can_show_or_muck_hole_cards(t)
      [] OTHER           -> Seated(t, c) /\ ~t.active[c] /\ can_leave(t, c)

\* lines 232-236: the condition under which the sweep sits a participant out
SitOutDue(t, user) == HasState(t) /\ ~t.player[user] /\ can_sit_out(t, user)

\* history of eligibility after the table changed to t
Refresh(age, t) ==
    [c \in Cats |-> IF ~Eligible(t, c) THEN Absent
                    ELSE IF age[c] = Absent THEN {0} ELSE age[c]]

\* ---------------------------------------------------------------- snapshots
\* Data.from_table(table): opaque to the loop; tagged with the mutation that
\* produced it and, for a dispatched action, the action's number
Snapshot(cause, id) == [cause |-> cause, id |-> id]

DictGet(d, k) == IF k \in DOMAIN d THEN d[k] ELSE Absent
DictSet(d, k, v) == [x \in (DOMAIN d) \cup {k} |-> IF x = k THEN v ELSE d[x]]
\* a reconciliation that drops nothing
DictKeep_all(d, keys) == d

\* lines 328-332: pop every key that is not in keys
DictKeep(d, keys) == [x \in (DOMAIN d) \cap keys |-> d[x]]

\* ---------------------------------------------------------------- sweep
\* One pass of the sweep works on a record r of the loop's locals:
\* table, sc, sd, idle, sp, bt, hc (the six deadline holders), data, and
\* the history fields since, fired, plus abort (AssertionError raised).
Mutate(r, t) == [r EXCEPT !.table = t, !.since = Refresh(r.since, t)]
Emit(r, cause) == [r EXCEPT !.data = Append(@, Snapshot(cause, 0))]
Note(r, c, act, ts) ==
    [r EXCEPT !.fired = Append(@, [cat |-> c, act |-> act, age |-> r.since[c], ts |-> ts,
                                   legal |-> {a \in {"fold", "check_or_call", "post_bring_in"} :
                                                (a = "fold" /\ can_fold(r.table))
                                                \/ (a = "check_or_call" /\ can_check_or_call(r.table))
                                                \/ (a = "post_bring_in" /\ can_post_bring_in(r.table))}])]

\* a construction block that fires on a passed deadline without asking the table
ConstructBlock_nocheck(r, script) ==
    LET elig == can_construct_state(r.table)
        fire == is_past_timestamp(r.sc)
        r1 == IF fire
              THEN Emit(Mutate(Note([r EXCEPT !.sc = Absent], "construct", "construct_state", r.sc),
                               construct_state(r.table, script)), "construct_state")
              ELSE r
        tmo == IF elig /\ ~fire THEN {state_construction_timeout} ELSE Absent
    IN  [r1 EXCEPT !.sc = min_or_none({r1.sc, get_future_timestamp(tmo)})]

\* lines 189-207
ConstructBlock(r, script) ==
    LET elig == can_construct_state(r.table)
        fire == elig /\ is_past_timestamp(r.sc)
        r1 == IF fire
              THEN Emit(Mutate(Note([r EXCEPT !.sc = Absent], "construct", "construct_state", r.sc),
                               construct_state(r.table, script)), "construct_state")
              ELSE r
        tmo == IF elig /\ ~fire THEN {state_construction_timeout} ELSE Absent
    IN  [r1 EXCEPT !.sc = min_or_none({r1.sc, get_future_timestamp(tmo)})]

DestroyBlock(r) ==
    LET elig == can_destroy_state(r.table)
        fire == elig /\ is_past_timestamp(r.sd)
        r1 == IF fire
              THEN Emit(Mutate(Note([r EXCEPT !.sd = Absent], "destroy", "destroy_state", r.sd),
                               destroy_state(r.table)), "destroy_state")
              ELSE r
        tmo == IF elig /\ ~fire THEN {state_destruction_timeout} ELSE Absent
    IN  [r1 EXCEPT !.sd = min_or_none({r1.sd, get_future_timestamp(tmo)})]

\* a users loop that sits a participant out only once the idle deadline is over
UserBlock_gated(r, user) ==
    LET r1 == IF SitOutDue(r.table, user) /\ is_past_timestamp(DictGet(r.idle, user))
              THEN Emit(Mutate(r, sit_out(r.table, user)), "sit_out")
              ELSE r
        elig == ~r1.table.active[user] /\ can_leave(r1.table, user)
        fire == elig /\ is_past_timestamp(DictGet(r1.idle, user))
        r2 == IF fire
              THEN Emit(Mutate(Note([r1 EXCEPT !.idle = DictSet(@, user, Absent)],
                                    user, "leave", DictGet(r1.idle, user)),
                               leave(r1.table, user)), "leave")
              ELSE r1
        tmo == IF elig /\ ~fire THEN {idle_timeout} ELSE Absent
    IN  [r2 EXCEPT !.idle = DictSet(@, user, get_future_timestamp(tmo))]

\* lines 230-254: the body of `for user in table.users`
UserBlock(r, user) ==
    LET r1 == IF SitOutDue(r.table, user)
              THEN Emit(Mutate(r, sit_out(r.table, user)), "sit_out")
              ELSE r
        elig == ~r1.table.active[user] /\ can_leave(r1.table, user)
        fire == elig /\ is_past_timestamp(DictGet(r1.idle, user))
        r2 == IF fire
              THEN Emit(Mutate(Note([r1 EXCEPT !.idle = DictSet(@, user, Absent)],
                                    user, "leave", DictGet(r1.idle, user)),
                               leave(r1.table, user)), "leave")
              ELSE r1
        tmo == IF elig /\ ~fire THEN {idle_timeout} ELSE Absent
    IN  [r2 EXCEPT !.idle = DictSet(@, user, get_future_timestamp(tmo))]

RECURSIVE UsersLoop(_, _)
UsersLoop(r, users) ==
    IF users = <<>> THEN r ELSE UsersLoop(UserBlock(r, Head(users)), Tail(users))

StandingPatBlock(r) ==
    LET elig == can_stand_pat_or_discard(r.table)
        fire == elig /\ is_past_timestamp(r.sp)
        r1 == IF fire
              THEN Emit(Mutate(Note([r EXCEPT !.sp = Absent], "pat", "stand_pat_or_discard", r.sp),
                               Advance(r.table)), "stand_pat_or_discard")
              ELSE r
        tmo == IF elig /\ ~fire THEN {standing_pat_timeout} ELSE Absent
    IN  [r1 EXCEPT !.sp = min_or_none({r1.sp, get_future_timestamp(tmo)})]

\* a fallback that prefers check-or-call to fold
Fallback_callfirst(t) ==
    IF can_check_or_call(t) THEN "check_or_call"
    ELSE IF can_fold(t) THEN "fold"
    ELSE IF can_post_bring_in(t) THEN "post_bring_in"
    ELSE "AssertionError"

\* the default action of an actor who ran out of time
Fallback(t) ==
    IF can_fold(t) THEN "fold"
    ELSE IF can_check_or_call(t) THEN "check_or_call"
    ELSE IF can_post_bring_in(t) THEN "post_bring_in"
    ELSE "AssertionError"

\* a betting block that ignores a missing default action instead of raising
BettingBlock_swallow(r) ==
    LET elig == actor_due(r.table)
        fire == elig /\ is_past_timestamp(r.bt)
        act  == Fallback(r.table)
        r0 == [r EXCEPT !.bt = Absent]
        r1 == IF ~fire \/ act = "AssertionError" THEN (IF fire THEN r0 ELSE r)
              ELSE Emit(Mutate(Note(r0, "bet", act, r.bt), Advance(r.table)), act)
        tmo == IF elig /\ ~fire THEN {betting_timeout} ELSE Absent
    IN  [r1 EXCEPT !.bt = min_or_none({r1.bt, get_future_timestamp(tmo)})]

BettingBlock(r) ==
    LET elig == actor_due(r.table)
        fire == elig /\ is_past_timestamp(r.bt)
        act  == Fallback(r.table)
        r0 == [r EXCEPT !.bt = Absent]
        r1 == IF ~fire THEN r
              ELSE IF act = "AssertionError" THEN [r0 EXCEPT !.abort = TRUE]
              ELSE Emit(Mutate(Note(r0, "bet", act, r.bt), Advance(r.table)), act)
        tmo == IF elig /\ ~fire THEN {betting_timeout} ELSE Absent
    IN  IF r1.abort THEN r1
        ELSE [r1 EXCEPT !.bt = min_or_none({r1.bt, get_future_timestamp(tmo)})]

ShowingBlock(r) ==
    LET elig == can_show_or_muck_hole_cards(r.table)
        fire == elig /\ is_past_timestamp(r.hc)
        r1 == IF fire
              THEN Emit(Mutate(Note([r EXCEPT !.hc = Absent], "show", "show_or_muck_hole_cards", r.hc),
                               Advance(r.table)), "show_or_muck_hole_cards")
              ELSE r
        tmo == IF elig /\ ~fire THEN {hole_cards_showing_or_mucking_timeout} ELSE Absent
    IN  [r1 EXCEPT !.hc = min_or_none({r1.hc, get_future_timestamp(tmo)})]

\* lines 256-326: the blocks that run only while a hand exists
StateBlocks(r) ==
    IF ~HasState(r.table) THEN r
    ELSE LET r5 == BettingBlock(StandingPatBlock(r))
         IN  IF r5.abort THEN r5 ELSE ShowingBlock(r5)

\* one pass of the body of `while data_count != len(data)`
Pass(r, script) ==
    LET r2 == DestroyBlock(ConstructBlock(r, script))
    IN  StateBlocks(UsersLoop(r2, TableUsers(r2.table)))

\* ---------------------------------------------------------------- dispatcher
\* Payloads.  A command string is kept as the tokens action.split() gives;
\* an event that is not a string has no tokens.
Str(tokens) == [str |-> TRUE, tokens |-> tokens]
NonStr == [str |-> FALSE, tokens |-> <<>>]
SeatToken(u) == IF u = "a" THEN "0" ELSE "1"
Payloads(u) ==
    { Str(<<"j", SeatToken(u)>>), Str(<<"j", "x">>), Str(<<"l">>), Str(<<"s">>),
      Str(<<"b">>), Str(<<"brtr", "5">>), Str(<<"act">>), NonStr }

\* int(seat_index): the number of a numeral, ValueError (no value) otherwise
ParseInt(token) ==
    IF token = "0" THEN {0} ELSE IF token = "1" THEN {1} ELSE {}

Rejected(t) == [ok |-> FALSE, table |-> t, reset |-> FALSE]
Applied(t) == [ok |-> TRUE, table |-> t, reset |-> FALSE]

\* an accepted game action that leaves the three deadlines alone
GameAction_noreset(t, user) ==
    LET t1 == IF can_be_back(t, user) THEN be_back(t, user) ELSE t
    IN  IF ~Seated(t1, user) \/ ~t1.player[user] \/ ~HasState(t1) \/ ~can_parse_action(t1)
        THEN Rejected(t1)
        ELSE [ok |-> TRUE, table |-> Advance(t1), reset |-> FALSE]

\* the `case _` branch: a betting, discard or reveal action of the user
GameAction(t, user) ==
    LET t1 == IF can_be_back(t, user) THEN be_back(t, user) ELSE t
    IN  IF ~Seated(t1, user) THEN Rejected(t1)          \* get_seat
        ELSE IF ~t1.player[user] THEN Rejected(t1)      \* 'player dne'
        ELSE IF ~HasState(t1) THEN Rejected(t1)         \* 'state dne'
        ELSE IF ~can_parse_action(t1) THEN Rejected(t1) \* parse_action
        ELSE [ok |-> TRUE, table |-> Advance(t1), reset |-> TRUE]

\* a buy-in that calls the mutator with twice the parsed amount
BuyIn_twice(t, user, token) ==
    IF \E v \in parse_value(token) : can_buy_rebuy_top_off_or_rat_hole(t, user, v)
    THEN Applied(buy_rebuy_top_off_or_rat_hole(t, user, 2 * Min(parse_value(token))))
    ELSE Rejected(t)

\* lines 138-142: `brtr <starting_stack>`; the value parser or the table may
\* raise ValueError
BuyIn(t, user, token) ==
    IF \E v \in parse_value(token) : can_buy_rebuy_top_off_or_rat_hole(t, user, v)
    THEN Applied(buy_rebuy_top_off_or_rat_hole(t, user, Min(parse_value(token))))
    ELSE Rejected(t)

\* parse_user_action: ok is false when it raises ValueError, table is the
\* table it leaves behind, reset says whether lines 163-165 ran
parse_user_action(t, user, tokens) ==
    IF Len(tokens) = 2 /\ tokens[1] = "j" THEN
        IF \E i \in ParseInt(tokens[2]) : can_join(t, user, i)
        THEN Applied(join(t, user, Min(ParseInt(tokens[2]))))
        ELSE Rejected(t)
    ELSE IF tokens = <<"l">> THEN
        IF can_leave(t, user) THEN Applied(leave(t, user)) ELSE Rejected(t)
    ELSE IF tokens = <<"s">> THEN
        IF can_sit_out(t, user) THEN Applied(sit_out(t, user)) ELSE Rejected(t)
    ELSE IF tokens = <<"b">> THEN
        IF can_be_back(t, user) THEN Applied(be_back(t, user)) ELSE Rejected(t)
    ELSE IF Len(tokens) = 2 /\ tokens[1] = "brtr" THEN BuyIn(t, user, tokens[2])
    ELSE GameAction(t, user)

IsGameClass(tokens) ==
    ~(\/ (Len(tokens) = 2 /\ tokens[1] \in {"j", "brtr"})
      \/ tokens \in {<<"l">>, <<"s">>, <<"b">>})

\* ---------------------------------------------------------------- loop
\* a nearest deadline that leaves the idle timers out
get_auto_timestamp_noidle(sc, sd, idle, sp, bt, hc) ==
    min_or_none({sc, sd, sp, bt, hc})

\* lines 84-97
get_auto_timestamp(sc, sd, idle, sp, bt, hc) ==
    min_or_none({sc, sd, sp, bt, hc} \cup Range(idle))

\* longest blocking time the model counts down tick by tick
WaitCap == Max2(MaxWait, AgeCap)
Long == WaitCap + 1

\* a get_event that polls the queue when no deadline is armed
EventTimeout_poll(auto) ==
    IF auto = Absent THEN {0}
    ELSE {LET ticks == Max2(TimedeltaSeconds(d), 0) * TicksPerSecond
          IN  IF ticks > WaitCap THEN Long ELSE ticks : d \in auto}

\* the timeout get_event hands to queue.get, in ticks; None blocks for ever
EventTimeout(auto) ==
    {LET ticks == Max2(TimedeltaSeconds(d), 0) * TicksPerSecond
     IN  IF ticks > WaitCap THEN Long ELSE ticks : d \in auto}

NoDispatch == [class |-> "none", ok |-> FALSE, id |-> 0, armed |-> {}, user |-> NoUser,
               same |-> FALSE, buyin |-> FALSE]

\* a dispatcher that takes every payload for a command
Dispatch_anytype(t, user, action) == parse_user_action(t, user, action.tokens)

\* lines 175-183: a string is parsed as a command, anything else is dropped
\* with a warning
Dispatch(t, user, action) ==
    IF action.str THEN parse_user_action(t, user, action.tokens) ELSE Rejected(t)

\* a dispatcher that appends a snapshot whether or not the action was rejected
Batch_always(batch, ok, id) == Append(batch, Snapshot("action", id))

\* lines 176-181: the snapshot of a dispatched action is appended in the
\* else branch of the try, so only when parse_user_action did not raise
Batch(batch, ok, id) == IF ok THEN Append(batch, Snapshot("action", id)) ELSE batch

InitOn(t) ==
    /\ table = t
    /\ queue = <<>>
    /\ state_construction_timestamp = Absent
    /\ state_destruction_timestamp = Absent
    /\ idle_timestamps = <<>>
    /\ standing_pat_timestamp = Absent
    /\ betting_timestamp = Absent
    /\ hole_cards_showing_or_mucking_timestamp = Absent
    /\ data = <<>>
    /\ auto_timestamp = Absent
    /\ time_banks = <<>>
    /\ pc = "get_event"
    /\ timeout = Absent
    /\ nextId = 1
    /\ consumed = <<>>
    /\ delivered = <<>>
    /\ disp = NoDispatch
    /\ since = Refresh([c \in Cats |-> Absent], t)
    /\ fired = <<>>

Init == \E t \in InitTables : InitOn(t)

timers == <<state_construction_timestamp, state_destruction_timestamp, idle_timestamps,
            standing_pat_timestamp, betting_timestamp, hole_cards_showing_or_mucking_timestamp>>

\* a put that hands the newest action out first
Put_lifo(q, item) == <<item>> \o q

\* queue.put of CashGame.handle
Put(q, item) == Append(q, item)

\* CashGame.handle(user, event), called by a producer.  A put changes nothing
\* but the queue and the loop reads the queue only in queue.get, so a put made
\* while the loop dispatches, sweeps or publishes is the same put made once
\* the loop blocks again; puts after the loop has died stay in the queue.
Handle(user, event) ==
    /\ pc \in {"waiting", "aborted"}
    /\ nextId <= MaxActions
    /\ Len(queue) < MaxQueue
    /\ queue' = Put(queue, [user |-> user, action |-> event, id |-> nextId])
    /\ nextId' = nextId + 1
    /\ UNCHANGED <<table, timers, data, auto_timestamp, time_banks, pc, timeout,
                   consumed,
                   delivered, disp, since, fired>>

\* get_event up to the call of queue.get
GetEvent ==
    /\ pc = "get_event"
    /\ timeout' = EventTimeout(get_auto_timestamp(
                      state_construction_timestamp, state_destruction_timestamp,
                      idle_timestamps, standing_pat_timestamp, betting_timestamp,
                      hole_cards_showing_or_mucking_timestamp))
    /\ pc' = "waiting"
    /\ UNCHANGED <<table, queue, timers, data, auto_timestamp, time_banks, nextId, consumed,
                   delivered, disp, since, fired>>

\* queue.get returns an action: lines 172-183
TakeAction ==
    /\ pc = "waiting"
    /\ queue # <<>>
    /\ LET item == Head(queue)
           res == Dispatch(table, item.user, item.action)
       IN  /\ queue' = Tail(queue)
           /\ consumed' = Append(consumed, item.id)
           /\ table' = res.table
           /\ since' = Refresh(since, res.table)
           /\ data' = Batch(data, res.ok, item.id)
           /\ standing_pat_timestamp' = IF res.reset THEN Absent ELSE standing_pat_timestamp
           /\ betting_timestamp' = IF res.reset THEN Absent ELSE betting_timestamp
           /\ hole_cards_showing_or_mucking_timestamp' =
                  IF res.reset THEN Absent ELSE hole_cards_showing_or_mucking_timestamp
           /\ disp' = [class |-> IF ~item.action.str THEN "nonstr"
                                 ELSE IF IsGameClass(item.action.tokens) THEN "game"
                                 ELSE "table",
                       ok |-> res.ok, id |-> item.id, user |-> item.user,
                       same |-> item.user = disp.user,
                       buyin |-> res.ok /\ item.action.str /\ Len(item.action.tokens) = 2
                                 /\ item.action.tokens[1] = "brtr",
                       armed |-> {c \in {"pat", "bet", "show"} :
                                    \/ (c = "pat" /\ standing_pat_timestamp # Absent)
                                    \/ (c = "bet" /\ betting_timestamp # Absent)
                                    \/ (c = "show" /\ hole_cards_showing_or_mucking_timestamp # Absent)}]
    /\ pc' = "sweep"
    /\ timeout' = Absent
    /\ fired' = <<>>
    /\ UNCHANGED <<state_construction_timestamp, state_destruction_timestamp,
                   idle_timestamps, auto_timestamp, time_banks, nextId, delivered>>

\* queue.get raises Empty: the timeout ran out with nothing queued
WakeTimeout ==
    /\ pc = "waiting"
    /\ queue = <<>>
    /\ timeout = {0}
    /\ pc' = "sweep"
    /\ timeout' = Absent
    /\ disp' = [NoDispatch EXCEPT !.user = disp.user]
    /\ fired' = <<>>
    /\ UNCHANGED <<table, queue, timers, data, auto_timestamp, time_banks, nextId, consumed,
                   delivered, since>>

\* one pass of the fixed-point loop, lines 187-326
SweepPass ==
    /\ pc = "sweep"
    /\ \E script \in Scripts :
       \E r \in {Pass([table |-> table, sc |-> state_construction_timestamp,
                        sd |-> state_destruction_timestamp, idle |-> idle_timestamps,
                        sp |-> standing_pat_timestamp, bt |-> betting_timestamp,
                        hc |-> hole_cards_showing_or_mucking_timestamp, data |-> data,
                        since |-> since, fired |-> <<>>, abort |-> FALSE], script)} :
             /\ table' = r.table
             /\ state_construction_timestamp' = r.sc
             /\ state_destruction_timestamp' = r.sd
             /\ idle_timestamps' = r.idle
             /\ standing_pat_timestamp' = r.sp
             /\ betting_timestamp' = r.bt
             /\ hole_cards_showing_or_mucking_timestamp' = r.hc
             /\ data' = r.data
             /\ since' = r.since
             /\ fired' = r.fired
             /\ pc' = IF r.abort THEN "aborted"
                      ELSE IF Len(r.data) = Len(data) THEN "publish" ELSE "sweep"
    /\ UNCHANGED <<queue, auto_timestamp, time_banks, timeout, nextId, consumed, delivered,
                   disp>>

\* ids of the action snapshots of a batch, in batch order
RECURSIVE ActionIds(_)
ActionIds(batch) ==
    IF batch = <<>> THEN <<>>
    ELSE (IF Head(batch).cause = "action" THEN <<Head(batch).id>> ELSE <<>>)
         \o ActionIds(Tail(batch))

\* lines 328-338: reconciliation, auto_timestamp, callback(data), data.clear()
Publish ==
    /\ pc = "publish"
    /\ idle_timestamps' = DictKeep(idle_timestamps, UserSet(table))
    /\ time_banks' = DictKeep(time_banks, UserSet(table))
    /\ auto_timestamp' = get_auto_timestamp(
                      state_construction_timestamp, state_destruction_timestamp,
                      idle_timestamps', standing_pat_timestamp, betting_timestamp,
                      hole_cards_showing_or_mucking_timestamp)
    /\ delivered' = delivered \o ActionIds(data)
    /\ data' = <<>>
    /\ pc' = "get_event"
    /\ UNCHANGED <<table, queue, state_construction_timestamp, state_destruction_timestamp,
                   standing_pat_timestamp, betting_timestamp,
                   hole_cards_showing_or_mucking_timestamp, timeout, nextId, consumed,
                   since>>
    /\ disp' = [NoDispatch EXCEPT !.user = disp.user, !.same = disp.same]
    /\ fired' = <<>>

\* the clock advances by one tick (the locals of a loop that raised are gone)
Tick ==
    /\ pc # "aborted"
    /\ state_construction_timestamp' = Shift(state_construction_timestamp)
    /\ state_destruction_timestamp' = Shift(state_destruction_timestamp)
    /\ idle_timestamps' = [u \in DOMAIN idle_timestamps |-> Shift(idle_timestamps[u])]
    /\ standing_pat_timestamp' = Shift(standing_pat_timestamp)
    /\ betting_timestamp' = Shift(betting_timestamp)
    /\ hole_cards_showing_or_mucking_timestamp' = Shift(hole_cards_showing_or_mucking_timestamp)
    /\ auto_timestamp' = Shift(auto_timestamp)
    /\ timeout' = {IF n = Long THEN Long ELSE Max2(n - 1, 0) : n \in timeout}
    /\ since' = [c \in Cats |-> {IF n >= AgeCap THEN AgeCap ELSE n + 1 : n \in since[c]}]
    /\ UNCHANGED <<table, queue, data, time_banks, pc, nextId, consumed, delivered, disp, fired>>

\* a long blocking timeout runs out: every stored timestamp is far in the past
LongElapse ==
    /\ pc = "waiting"
    /\ timeout = {Long}
    /\ queue = <<>>
    /\ timeout' = {0}
    /\ state_construction_timestamp' = {0 - MaxPast : d \in state_construction_timestamp}
    /\ state_destruction_timestamp' = {0 - MaxPast : d \in state_destruction_timestamp}
    /\ idle_timestamps' = [u \in DOMAIN idle_timestamps |-> {0 - MaxPast : d \in idle_timestamps[u]}]
    /\ standing_pat_timestamp' = {0 - MaxPast : d \in standing_pat_timestamp}
    /\ betting_timestamp' = {0 - MaxPast : d \in betting_timestamp}
    /\ hole_cards_showing_or_mucking_timestamp' =
           {0 - MaxPast : d \in hole_cards_showing_or_mucking_timestamp}
    /\ auto_timestamp' = {0 - MaxPast : d \in auto_timestamp}
    /\ since' = [c \in Cats |-> {AgeCap : n \in since[c]}]
    /\ UNCHANGED <<table, queue, data, time_banks, pc, nextId, consumed, delivered, disp, fired>>

Next ==
    \/ \E user \in Users : \E event \in Payloads(user) : Handle(user, event)
    \/ GetEvent
    \/ TakeAction
    \/ WakeTimeout
    \/ SweepPass
    \/ Publish
    \/ Tick
    \/ LongElapse

Spec == Init /\ [][Next]_vars

TypeOK ==
    /\ pc \in {"get_event", "waiting", "sweep", "publish", "aborted"}
    /\ Len(queue) <= MaxQueue
    /\ table.state \in {NoState} \cup UNION {Suffixes(q) : q \in Scripts}

\* ---------------------------------------------------------------- steps
\* the step in which the loop takes an action from the queue and dispatches it
DispatchStep == pc = "waiting" /\ consumed' # consumed
\* the step in which the loop runs one pass of the sweep
SweepStep == pc = "sweep" /\ (pc' # "sweep" \/ data' # data)

Increasing(ids) == \A i, j \in 1 .. Len(ids) : i < j => ids[i] < ids[j]

\* ---------------------------------------------------------------- C1
\* C1: whatever the interleaving of producers, every submitted action is
\* either still queued or was taken exactly once, actions are taken (and so
\* applied) in the order they were submitted, and the snapshots of dispatched
\* actions reach the callback in that same order.
C1_FifoExactlyOnce ==
    /\ \A i \in 1 .. Len(consumed) : consumed[i] = i
    /\ \A i \in 1 .. Len(queue) : queue[i].id = Len(consumed) + i
    /\ nextId = Len(consumed) + Len(queue) + 1
    /\ Increasing(delivered \o ActionIds(data))
    /\ \A i \in 1 .. Len(delivered) : delivered[i] \in 1 .. Len(consumed)

\* two successive actions of one participant were dispatched and the
\* snapshots of both were delivered
C1_Witness ==
    /\ delivered = <<1, 2>>
    /\ consumed = <<1, 2>>
    /\ disp.same

\* ---------------------------------------------------------------- C2
\* C2: while the loop blocks in queue.get with a deadline armed and nothing
\* queued, the time it may still block never reaches past the nearest armed
\* deadline (a deadline that is already over allows no blocking at all).
C2_BoundedWakeup ==
    (pc = "waiting" /\ queue = <<>>)
        => \A d \in get_auto_timestamp(
                      state_construction_timestamp, state_destruction_timestamp,
                      idle_timestamps, standing_pat_timestamp, betting_timestamp,
                      hole_cards_showing_or_mucking_timestamp) :
               /\ timeout # Absent
               /\ \A n \in timeout : n <= Max2(d, 0)

\* ---------------------------------------------------------------- C3
\* C3: a default transition the sweep performs for a timer category is never
\* performed before the category's predicate has held, without interruption,
\* for the configured timeout.
C3_NoEarlyFiring ==
    \A i \in 1 .. Len(fired) :
        \A n \in fired[i].age : n >= Timeout(fired[i].cat) * TicksPerSecond

\* ---------------------------------------------------------------- C5
\* C5: when the sweep is over (the loop is about to publish), a category
\* holds a deadline only if its predicate currently answers eligible.
C5_DeadlineOnlyIfEligible ==
    pc = "publish" =>
        /\ state_construction_timestamp # Absent => Eligible(table, "construct")
        /\ state_destruction_timestamp # Absent => Eligible(table, "destroy")
        /\ standing_pat_timestamp # Absent => Eligible(table, "pat")
        /\ betting_timestamp # Absent => Eligible(table, "bet")
        /\ hole_cards_showing_or_mucking_timestamp # Absent => Eligible(table, "show")
        /\ \A u \in DOMAIN idle_timestamps :
               idle_timestamps[u] # Absent => Eligible(table, u)

\* ---------------------------------------------------------------- C6
ActionTimers ==
    <<standing_pat_timestamp, betting_timestamp, hole_cards_showing_or_mucking_timestamp>>

C7_RecoverableRejection ==
    [][(DispatchStep /\ disp'.class \in {"table", "game"} /\ ~disp'.ok)
          => /\ data' = data
             /\ pc' = "sweep"
             /\ queue' = Tail(queue)
             /\ \A i \in 1 .. Len(queue') : queue'[i].id # disp'.id]_vars

\* a rejected command string has been dispatched and the loop went on to
\* publish the (empty) batch of that iteration
C7_Witness ==
    /\ pc = "publish"
    /\ disp.class \in {"table", "game"} /\ ~disp.ok
    /\ data = <<>>

\* ---------------------------------------------------------------- C8
\* C8: a dispatch step that rejects an action leaves the table as it was.
C8_RejectionKeepsTable ==
    [][(DispatchStep /\ ~disp'.ok) => table' = table]_vars

\* ---------------------------------------------------------------- C9
BetCauses == {"fold", "check_or_call", "post_bring_in"}
RECURSIVE CountBet(_)
CountBet(batch) ==
    IF batch = <<>> THEN 0
    ELSE (IF Head(batch).cause \in BetCauses THEN 1 ELSE 0) + CountBet(Tail(batch))
Appended == SubSeq(data', Len(data) + 1, Len(data'))
BetFired(f) == {i \in 1 .. Len(f) : f[i].cat = "bet"}
FirstLegal(legal) ==
    IF "fold" \in legal THEN "fold"
    ELSE IF "check_or_call" \in legal THEN "check_or_call"
    ELSE "post_bring_in"

\* C9: a sweep pass that meets a due actor whose betting deadline has passed,
\* with a default action legal, performs exactly one betting action, the first
\* legal one of fold, check-or-call, post-bring-in, appends exactly one
\* snapshot for it and leaves the betting deadline absent; a pass performs no
\* betting action and appends no betting snapshot unless the betting
\* deadline had passed.
C9_BettingFallback ==
    [][SweepStep =>
         /\ CountBet(Appended) = Cardinality(BetFired(fired'))
         /\ CountBet(Appended) <= 1
         /\ \A i \in BetFired(fired') :
                /\ is_past_timestamp(betting_timestamp)
                /\ fired'[i].legal # {}
                /\ fired'[i].act = FirstLegal(fired'[i].legal)
                /\ \E k \in 1 .. Len(Appended) : Appended[k].cause = fired'[i].act
                /\ betting_timestamp' = Absent
         /\ (actor_due(table) /\ is_past_timestamp(betting_timestamp)
               /\ Fallback(table) # "AssertionError")
                => BetFired(fired') # {}
         /\ ~is_past_timestamp(betting_timestamp) => CountBet(Appended) = 0]_vars

\* the sweep has just folded for an actor who could also have checked or called
C9_Witness ==
    \E i \in 1 .. Len(fired) :
        /\ fired[i].cat = "bet"
        /\ fired[i].act = "fold"
        /\ fired[i].legal = {"fold", "check_or_call"}
        /\ data # <<>> /\ data[Len(data)].cause = "fold"
        /\ betting_timestamp = Absent

\* ---------------------------------------------------------------- C10
\* C10: a sweep pass that meets a due actor whose betting deadline has passed
\* with no default action legal ends the loop: the pass leaves the loop
\* aborted, and an aborted loop never takes another step (no action is taken
\* from the queue, no sweep, nothing is given to the callback).
C10_FatalAbort ==
    [][/\ (SweepStep /\ actor_due(table) /\ is_past_timestamp(betting_timestamp)
             /\ Fallback(table) = "AssertionError")
            => (pc' = "aborted" /\ delivered' = delivered)
       /\ pc = "aborted"
            => (pc' = "aborted" /\ UNCHANGED <<table, timers, data, auto_timestamp,
                                                consumed, delivered>>)]_vars

\* the loop has died and a producer still submitted an action afterwards
C10_Witness == pc = "aborted" /\ queue # <<>>

\* ---------------------------------------------------------------- C4
\* The loop never stops between steps, the clock never stops, and a blocking
\* timeout that runs out wakes the loop.
Fairness ==
    /\ WF_vars(GetEvent)
    /\ WF_vars(TakeAction)
    /\ WF_vars(WakeTimeout)
    /\ WF_vars(SweepPass)
    /\ WF_vars(Publish)
    /\ WF_vars(Tick)
    /\ WF_vars(LongElapse)

\* a loop started on an empty table
InitLive == InitOn(EmptyTable)

LiveSpec == InitLive /\ [][Next]_vars /\ Fairness

FiredCat(c) == \E i \in 1 .. Len(fired) : fired[i].cat = c

\* C4: for every timer category, the idle timer of each participant among
\* them, it cannot happen that from some moment on the predicate holds for
\* ever, no action is submitted, the loop is alive, and the sweep never
\* performs the category's default transition.
C4_Liveness ==
    \A c \in Cats :
        ~<>[](Eligible(table, c) /\ queue = <<>> /\ pc # "aborted" /\ ~FiredCat(c))

\* ---------------------------------------------------------------- C11
\* C11: whenever the callback has been invoked and the loop has not yet taken
\* its next action (it is back at get_event or blocked in queue.get), every
\* participant with an idle-timer entry and every participant with a
\* time-bank entry is seated at the table; so a participant removed during an
\* iteration has neither entry once that iteration has published.
C11_GarbageCollected ==
    pc \in {"get_event", "waiting"}
        => /\ DOMAIN idle_timestamps \subseteq UserSet(table)
           /\ DOMAIN time_banks \subseteq UserSet(table)

\* the sweep is over, a snapshot was produced, and a participant who is no
\* longer seated still has an idle-timer entry for the reconciliation to drop
C11_Witness ==
    /\ pc = "publish"
    /\ data # <<>>
    /\ \E u \in DOMAIN idle_timestamps : ~Seated(table, u)

\* ---------------------------------------------------------------- C12
IsPrefix(p, q) == Len(p) <= Len(q) /\ SubSeq(q, 1, Len(p)) = p

\* the batch is handed to the callback in full, once, and then cleared
DeliveredWhole ==
    (pc = "publish" /\ pc' # "publish")
        => (pc' = "get_event" /\ delivered' = delivered \o ActionIds(data) /\ data' = <<>>)
\* between two callbacks snapshots are only added, at the end of the batch
OnlyAppended == pc # "publish" => IsPrefix(data, data')
\* the snapshot of the dispatched action comes before every sweep snapshot
ActionFirst == \A i \in 2 .. Len(data) : data[i].cause # "action"
\* nothing is in the batch when the loop waits for its next action
EmptyAtStart == pc \in {"get_event", "waiting"} => data = <<>>
\* no snapshot is produced and then never handed over
NoneStranded == pc = "aborted" => data = <<>>

\* C12: every snapshot produced in an iteration, the dispatched action's
\* first and the sweep's after it in the order of the mutations, is handed to
\* the callback once, in the batch of that iteration; the batch is empty when
\* the next iteration starts and no snapshot is produced without being
\* handed over.
C12_SnapshotDelivery ==
    [][/\ DeliveredWhole
       /\ OnlyAppended
       /\ ActionFirst'
       /\ EmptyAtStart'
       /\ NoneStranded']_vars

\* ---------------------------------------------------------------- C13
\* no predicate the sweep tests holds on table t
NothingEligible(t) ==
    /\ \A c \in Cats : ~Eligible(t, c)
    /\ \A u \in UserSet(t) : ~SitOutDue(t, u)

\* C13: a sweep pass run on a table on which no eligibility predicate holds
\* changes nothing in the table, appends no snapshot, and is the last pass of
\* the sweep.
C13_IdleSweep ==
    [][(SweepStep /\ NothingEligible(table))
          => (table' = table /\ data' = data /\ pc' = "publish")]_vars

\* the sweep has ended without a snapshot on a table on which nothing is
\* eligible, although a deadline left from an earlier iteration has passed
C13_Witness ==
    /\ pc = "publish"
    /\ data = <<>>
    /\ NothingEligible(table)
    /\ is_past_timestamp(state_construction_timestamp)

\* ---------------------------------------------------------------- C14
\* C14: a dispatch step whose payload is not a string leaves the table, the
\* batch and every deadline as they were and takes the loop to the sweep, the
\* state a wake-up without an action would have left.
C14_NonStringDropped ==
    [][(DispatchStep /\ disp'.class = "nonstr")
          => /\ table' = table
             /\ data' = data
             /\ timers' = timers
             /\ since' = since
             /\ pc' = "sweep"]_vars

\* a payload that is not a string was taken while a deadline was armed, and
\* the sweep of that iteration is about to start on an empty batch
C14_Witness ==
    /\ pc = "sweep"
    /\ disp.class = "nonstr"
    /\ data = <<>>
    /\ fired = <<>>
    /\ get_auto_timestamp(state_construction_timestamp, state_destruction_timestamp,
                          idle_timestamps, standing_pat_timestamp, betting_timestamp,
                          hole_cards_showing_or_mucking_timestamp) # Absent

\* ---------------------------------------------------------------- C15
IsBuyIn(action) == action.str /\ Len(action.tokens) = 2 /\ action.tokens[1] = "brtr"

\* C15: a dispatch step that accepts `brtr <amount>` leaves the table as one
\* call of the buy-in mutator leaves it, with the amount the value parser
\* gives for the token, appends exactly one snapshot (the action's), and
\* leaves every deadline, the idle timers included, as it was.
C15_BuyIn ==
    [][(DispatchStep /\ IsBuyIn(Head(queue).action) /\ disp'.ok)
          => /\ \E v \in parse_value(Head(queue).action.tokens[2]) :
                    table' = buy_rebuy_top_off_or_rat_hole(table, Head(queue).user, v)
             /\ data' = Append(data, Snapshot("action", Head(queue).id))
             /\ timers' = timers]_vars

\* a buy-in that changed the participant's chips was accepted while an idle
\* timer was armed, and its snapshot is the only one in the batch
C15_Witness ==
    /\ pc = "sweep"
    /\ disp.buyin
    /\ table.stack[disp.user] = 5
    /\ data = <<Snapshot("action", disp.id)>>
    /\ \E u \in DOMAIN idle_timestamps : idle_timestamps[u] # Absent

\* ---------------------------------------------------------------- C16
\* the nearest armed deadline, as get_event computes it
AutoNow ==
    get_auto_timestamp(state_construction_timestamp, state_destruction_timestamp,
                       idle_timestamps, standing_pat_timestamp, betting_timestamp,
                       hole_cards_showing_or_mucking_timestamp)

\* get_event, then the dispatch, then the sweep, then the publication, then
\* get_event again
CycleOrder ==
    /\ pc = "get_event" => pc' \in {"get_event", "waiting"}
    /\ pc = "waiting" => pc' \in {"waiting", "sweep"}
    /\ pc = "sweep" => pc' \in {"sweep", "publish"}
    /\ pc = "publish" => pc' \in {"publish", "get_event"}
\* the same, with the one way out of the cycle: the fatal error of the
\* betting sweep, which ends the loop during the sweep
CycleOrderOrAbort ==
    /\ pc = "get_event" => pc' \in {"get_event", "waiting"}
    /\ pc = "waiting" => pc' \in {"waiting", "sweep"}
    /\ pc = "sweep" => pc' \in {"sweep", "publish", "aborted"}
    /\ pc = "publish" => pc' \in {"publish", "get_event"}
    /\ pc = "aborted" => pc' = "aborted"
\* actions leave the queue one at a time, only on the way from the wait to
\* the sweep, and a wake-up that finds an action queued takes it
OneDrained ==
    /\ (consumed' # consumed \/ Len(queue') < Len(queue))
          => /\ pc = "waiting" /\ pc' = "sweep" /\ queue # <<>>
             /\ consumed' = Append(consumed, Head(queue).id)
             /\ queue' = Tail(queue)
    /\ (pc = "waiting" /\ pc' = "sweep" /\ queue # <<>>) => consumed' # consumed
\* leaving the wait with nothing queued needs a timeout that has run out, and
\* dispatches nothing
TimeoutWake ==
    (pc = "waiting" /\ pc' = "sweep" /\ queue = <<>>)
        => /\ timeout = {0}
           /\ disp'.class = "none"
           /\ table' = table /\ data' = data /\ timers' = timers
\* the wait has a timeout exactly when a deadline is armed
BlocksForEver == pc = "waiting" => (timeout = Absent <=> AutoNow = Absent)

\* C16: the loop goes from waiting to draining to sweeping to publishing and
\* back to waiting; an iteration takes at most one action from the queue,
\* however many are queued; a wake-up by timeout with nothing queued goes to
\* the sweep with no action; with no deadline armed the loop waits without a
\* timeout, so only an action ends the wait.
C16_LoopCycle ==
    [][CycleOrder /\ OneDrained /\ TimeoutWake /\ BlocksForEver']_vars

\* C16 as amended: the same, for every iteration that the fatal error of the
\* betting sweep does not end; that error leaves the loop from the sweep, with
\* nothing published, and the loop never waits again.
C16_LoopCycleOrAbort ==
    [][CycleOrderOrAbort /\ OneDrained /\ TimeoutWake /\ BlocksForEver']_vars

\* an iteration took one action, swept, and is about to publish while another
\* action is still queued
C16_Witness ==
    /\ pc = "publish"
    /\ disp.class # "none"
    /\ queue # <<>>
    /\ Len(consumed) = 1

\* ---------------------------------------------------------------- C17
\* a loop started on a table that two participants play at and a third watches
InitWatched == InitOn(WatchedTable)

WatchedSpec == InitWatched /\ [][Next]_vars

\* the snapshot causes of the default transitions of each global category
CauseSets ==
    { {"construct_state"}, {"destroy_state"}, {"stand_pat_or_discard"},
      {"fold", "check_or_call", "post_bring_in"}, {"show_or_muck_hole_cards"} }
Occurrences(batch, causes) ==
    Cardinality({i \in 1 .. Len(batch) : batch[i].cause \in causes})

\* a pass that appended a snapshot is followed by another pass and a pass
\* that completed without appending one ends the sweep
StopsAtFixedPoint ==
    (SweepStep /\ pc' # "aborted") => (pc' = "publish" <=> data' = data)
\* within one iteration no category fires twice and no more participants are
\* removed than there are seats
OncePerSweep ==
    /\ \A causes \in CauseSets : Occurrences(data, causes) <= 1
    /\ Occurrences(data, {"leave"}) <= NumSeats
\* so the passes of one sweep are bounded by the number of transitions that
\* can fire once each: the sweep ends
PassBound == 1 + Cardinality(CauseSets) + 2 * NumSeats

\* C17: the sweep runs full passes and stops exactly after the first pass
\* that appends no snapshot; in one sweep every deadline-gated category fires
\* at most once, so on every reachable table the sweep ends after a bounded
\* number of passes.
C17_FixedPoint ==
    [][StopsAtFixedPoint /\ OncePerSweep' /\ Len(data') <= PassBound]_vars

\* ---------------------------------------------------------------- C18
\* the deadline the loop holds for a timer category
Deadline(c) ==
    CASE c = "construct" -> state_construction_timestamp
      [] c = "destroy"   -> state_destruction_timestamp
      [] c = "pat"       -> standing_pat_timestamp
      [] c = "bet"       -> betting_timestamp
      [] c = "show"      -> hole_cards_showing_or_mucking_timestamp
      [] OTHER           -> DictGet(idle_timestamps, c)

\* C18: for every timer category, each participant's idle timer among them,
\* a sweep pass that finds the predicate eligible arms the deadline at
\* now + timeout only when it is absent, and a deadline that is armed and not
\* yet over keeps its value over the pass while the predicate stays eligible.
C18_ArmOnlyIfAbsent ==
    [][SweepStep =>
         \A c \in Cats :
             (Eligible(table, c) /\ Eligible(table', c))
                 => /\ (Deadline(c) # Absent /\ ~is_past_timestamp(Deadline(c)))
                          => Deadline(c)' = Deadline(c)
                    /\ (Deadline(c) = Absent /\ Deadline(c)' # Absent)
                          => Deadline(c)' = get_future_timestamp({Timeout(c)})]_vars

\* ---------------------------------------------------------------- C19
\* the participants a step deactivates without unseating them
SatOut == {u \in Everyone : table.active[u] /\ ~table'.active[u] /\ Seated(table', u)}

\* C19: a sweep pass sits out, with one snapshot each, exactly the seated
\* participants who are not players of the hand in progress and whom the
\* table allows to sit out: after the pass none such is left, whatever the
\* deadlines say, and nobody else was sat out by the pass.
C19_UngatedSitOut ==
    [][SweepStep =>
         /\ \A u \in UserSet(table') : ~SitOutDue(table', u)
         /\ Occurrences(Appended, {"sit_out"}) = Cardinality(SatOut)
         /\ \A u \in SatOut : HasState(table') /\ ~table'.player[u]]_vars

\* the pass that constructed a hand has also sat out the participant who is
\* not in it, although no idle deadline was armed for that participant
C19_Witness ==
    /\ pc = "sweep"
    /\ Len(data) >= 2
    /\ data[Len(data) - 1].cause = "construct_state"
    /\ data[Len(data)].cause = "sit_out"
    /\ Pending(table)
    /\ \E u \in UserSet(table) : ~table.player[u] /\ ~table.active[u]

\* ---------------------------------------------------------------- C20
\* the earliest of the deadlines the loop holds, absent when it holds none
NearestDeadline == min_or_none({Deadline(c) : c \in Cats})

\* C20: when the sweep ends with a pass and the loop goes on to publish,
\* every timer category whose predicate holds on the table has a deadline
\* that is armed and lies strictly after the time of that pass; and the
\* auto_timestamp the loop publishes is the earliest deadline it holds after
\* the reconciliation, absent exactly when it holds none.
C20_NothingOverdue ==
    [][/\ (SweepStep /\ pc' = "publish")
            => \A c \in Cats :
                   Eligible(table', c)
                       => (Deadline(c)' # Absent /\ \A d \in Deadline(c)' : d > 0)
       /\ (pc = "publish" /\ pc' = "get_event")
            => (auto_timestamp' = NearestDeadline' /\ table' = table)]_vars

\* the loop has published, after delivering a snapshot, with the idle
\* deadline of a sat-out participant as the nearest deadline while another
\* participant is seated and active
C20_Witness ==
    /\ pc = "get_event"
    /\ delivered # <<>>
    /\ auto_timestamp # Absent
    /\ \E u \in UserSet(table) : Eligible(table, u) /\ Deadline(u) = auto_timestamp
    /\ \E u \in UserSet(table) : table.active[u]

====
